---- MODULE Spec2Model ----
(***************************************************************************)
(* Model of the flight-booking validation Lambda: the step runner          *)
(* (src/utils/runStep.ts), its two evidence helpers (takeStepScreenshot,   *)
(* uploadToS3), the final takeScreenshot and the handler that sequences    *)
(* the six validation steps.                                               *)
(*                                                                         *)
(* One action is one synchronous segment of JavaScript: the code that runs *)
(* between the settlement of one awaited promise and the next await.  The  *)
(* outcome of every awaited external action (resolve or reject) is chosen  *)
(* by the environment.                                                     *)
(***************************************************************************)
EXTENDS Integers, Sequences, FiniteSets, TLC

\* ---------------------------------------------------------------- bounds
MaxTime == 1      \* the clock (Date.now) takes the values 0..MaxTime

\* ------------------------------------------------------- optional values
None == {}
Some(v) == {v}
Get(opt) == CHOOSE v \in opt : TRUE

\* ----------------------------------------------------------- step names
\* A name is the sequence of its whitespace-separated words.
StepNames ==
  << <<"Navigate", "to", "Aegean">>,
     <<"Wait", "for", "booking", "component">>,
     <<"Validate", "passengers", "and", "travel", "class", "selector">>,
     <<"Select", "origin", "and", "destination", "airports">>,
     <<"Validate", "departure", "and", "return", "date", "selectors",
       "(select", "tomorrow", "and", "day", "after", "tomorrow)">>,
     <<"Validate", "search", "button", "is", "enabled", "and", "contains",
       "'search'">> >>

NumSteps == Len(StepNames)

\* Messages of the errors a work unit may raise (token sequences).
WorkMessages == { <<"not", "found">>, <<"Timeout", "30000ms", "exceeded">> }

\* Messages of errors raised during setup and by the final screenshot.
SetupMessages == { <<"browser", "launch", "failed">> }
FinalMessages == { <<"AccessDenied">> }

Handlers == {"h1", "h2"}

SetupStages == {"ensureDirectoriesExist", "executablePath", "launch",
                "newContext", "newPage"}

VARIABLES
  stepResults,   \* the module-level array of runStep.ts
  now,           \* the wall clock read by Date.now()
  pc,            \* pc[h]: the promise handler invocation h is awaiting
  hs,            \* hs[h]: the handler's locals browser, screenshotUrl, statusCode, message
  frame,         \* frame[h]: the locals of the runStep call in progress
  response,      \* response[h]: the APIGatewayProxyResult returned, if any
  trace,         \* trace[h]: the runStep calls of this run and what their work unit did
  evidence,      \* evidence[h]: what capture and upload did in the latest runStep call
  hist           \* hist[h]: observations about the run of h

vars == <<stepResults, now, pc, hs, frame, response, trace, evidence, hist>>

\* ------------------------------------------------------ pure helpers

ToLowerCase(w) ==
  CASE w = "Navigate" -> "navigate"
    [] w = "Aegean"   -> "aegean"
    [] w = "Wait"     -> "wait"
    [] w = "Validate" -> "validate"
    [] w = "Select"   -> "select"
    [] OTHER          -> w

RECURSIVE JoinUnderscore(_)
JoinUnderscore(ws) ==
  IF Len(ws) <= 1 THEN ws
  ELSE <<Head(ws), "_">> \o JoinUnderscore(Tail(ws))

\* stepName.replace(/\s+/g, "_").toLowerCase()
Sanitize(name) ==
  LET j == JoinUnderscore(name)
  IN [i \in 1..Len(j) |-> ToLowerCase(j[i])]

\* `step-${sanitizedStepName}-${Date.now()}.png`
StepFilename(name, t) == [prefix |-> "step", label |-> Sanitize(name), ts |-> t]

\* `/tmp/screenshots/${filename}` as its "/"-separated segments
LocalPath(filename) == <<"tmp", "screenshots", filename>>

\* localPath.split("/").pop()
PopSegment(path) == path[Len(path)]

\* the URL uploadToS3 returns for (localPath, filename)
S3Url(filename) == [host |-> "s3", key |-> <<"screenshots", filename>>]

\* `${name}-${timestamp}.png` of the final takeScreenshot
FinalFilename(name, t) == [prefix |-> name, label |-> <<>>, ts |-> t]

\* mutation of ErrorMessage: a fixed text instead of the error's message
ErrorMessageGeneric(m) == <<"Error:", "step", "failed">>

\* `Error: ${error.message}`
ErrorMessage(m) == <<"Error:">> \o m

\* new Error(x).message : an undefined argument gives the empty message
NewErrorMessage(opt) == IF opt = None THEN <<>> ELSE Get(opt)

\* s.includes(m) on token sequences
Contains(s, m) ==
  \E i \in 0..Len(s) :
     /\ i + Len(m) <= Len(s)
     /\ \A j \in 1..Len(m) : s[i + j] = m[j]

NewResult(name) ==
  [name |-> name, status |-> "success", durationMs |-> 0,
   screenshotUrl |-> None, errorMessage |-> None]

\* lenBefore is the length of stepResults, and tCall the clock, when the call
\* started
NoFrame ==
  [step |-> 0, start |-> 0, result |-> NewResult(<<>>), localPath |-> None,
   lenBefore |-> 0, tCall |-> 0]

InitialLocals ==
  [browser |-> FALSE, screenshotUrl |-> None, statusCode |-> 200,
   message |-> <<"Success">>]

\* appended is the growth of stepResults over the call and pushed the element
\* the call added, once it has settled
NewTraceEntry(name) ==
  [name |-> name, work |-> "pending", workMsg |-> None,
   settled |-> "no", raisedMsg |-> None, appended |-> 0, pushed |-> None]

\* tStart, tWork, tEnd: the clock when the call started, when its work unit
\* settled and when its evidence phase ended; captures, uploads: how often
\* takeStepScreenshot and uploadToS3 were called
NoEvidence ==
  [call |-> 0, capture |-> "none", upload |-> "none", uploaded |-> None,
   tStart |-> 0, tWork |-> 0, tEnd |-> 0, captures |-> 0, uploads |-> 0]

\* leftover: stepResults held results of an earlier run when this run started;
\* launched: playwright.launch resolved; fatal: the message of the error that
\* setup or the final screenshot raised
NewHist(len) ==
  [leftover |-> len > 0, setup |-> "pending", final |-> "none",
   caught |-> 0, closes |-> 0, closeFailed |-> FALSE,
   launched |-> FALSE, fatal |-> None]

\* a response that falls back to the screenshot of the last step when the final
\* screenshot is missing
BuildResponseFallbackUrl(locals, results) ==
  [statusCode |-> locals.statusCode, message |-> locals.message,
   timestamp |-> now,
   screenshotUrl |-> IF locals.screenshotUrl = None /\ Len(results) > 0
                       THEN results[Len(results)].screenshotUrl
                       ELSE locals.screenshotUrl,
   steps |-> results]

\* the response object of handler lines 402-415
BuildResponse(locals, results) ==
  [statusCode |-> locals.statusCode, message |-> locals.message,
   timestamp |-> now, screenshotUrl |-> locals.screenshotUrl,
   steps |-> results]

\* ------------------------------------------------------------- Init

Init ==
  /\ stepResults = <<>>
  /\ now = 0
  /\ pc = [h \in Handlers |-> "idle"]
  /\ hs = [h \in Handlers |-> InitialLocals]
  /\ frame = [h \in Handlers |-> NoFrame]
  /\ response = [h \in Handlers |-> None]
  /\ trace = [h \in Handlers |-> <<>>]
  /\ evidence = [h \in Handlers |-> NoEvidence]
  /\ hist = [h \in Handlers |-> NewHist(0)]

\* Time passes.
Tick ==
  /\ now < MaxTime
  /\ now' = now + 1
  /\ UNCHANGED <<stepResults, pc, hs, frame, response, trace, evidence, hist>>


\* ------------------------------------------- the lines of runStep.ts

\* mutation of OnWorkError: the message of the caught error is not kept
OnWorkErrorNoMessage(res, m) == [res EXCEPT !.status = "error"]

\* lines 29-31: catch (error) { result.status = "error"; result.errorMessage = error.message }
OnWorkError(res, m) == [res EXCEPT !.status = "error", !.errorMessage = Some(m)]

\* mutation of OnUploaded: the URL is kept only for a successful step
OnUploadedIfSuccess(res, url) ==
  IF res.status = "success" THEN [res EXCEPT !.screenshotUrl = Some(url)] ELSE res

\* line 38: result.screenshotUrl = await uploadToS3(localPath, filename)
OnUploaded(res, url) == [res EXCEPT !.screenshotUrl = Some(url)]

\* mutation of OnEvidenceError: an evidence failure marks the step as failed
OnEvidenceErrorMarksError(res) == [res EXCEPT !.status = "error"]

\* lines 39-42: catch (e) { console.error(...) } leaves the result as it is
OnEvidenceError(res) == res

\* the subtraction of line 44 with its operands exchanged
WithDurationSwapped(res, start, t) == [res EXCEPT !.durationMs = start - t]

\* line 44: result.durationMs = Date.now() - start
WithDuration(res, start, t) == [res EXCEPT !.durationMs = t - start]

\* mutation of Push: the push sits in the success path only
PushUnlessError(results, res) ==
  IF res.status = "error" THEN results ELSE Append(results, res)

\* mutation of Push: a result without evidence is not recorded
PushIfEvidence(results, res) ==
  IF res.screenshotUrl = None /\ res.status = "success" THEN results ELSE Append(results, res)

\* unshift in place of push: the result is put in front
PushFront(results, res) == <<res>> \o results

\* the result is pushed twice
PushTwice(results, res) == Append(Append(results, res), res)

\* line 45: stepResults.push(result)
Push(results, res) == Append(results, res)

\* mutation of ShouldThrow: a step without screenshot is treated as failed
ShouldThrowWithoutEvidence(res) == res.status = "error" \/ res.screenshotUrl = None

\* mutation of ShouldThrow: the recorded error is never re-raised
NeverThrow(res) == FALSE

\* line 47: if (result.status === "error")
ShouldThrow(res) == res.status = "error"

\* mutation of ResetResults: the reset is missing
KeepResults(results) == results

\* handler line 131: stepResults.length = 0
ResetResults(results) == <<>>

\* ------------------------------------------- control-flow fragments

\* a finally-block without the test of line 392: close is called on whatever
\* the variable browser holds
FinallyAlwaysCloses(h, locals, results, hrec) ==
  /\ hs' = [hs EXCEPT ![h] = locals]
  /\ hist' = [hist EXCEPT ![h] = hrec]
  /\ pc' = [pc EXCEPT ![h] = "close"]
  /\ response' = response

\* finally-block of the handler (lines 390-399) followed, when there is no
\* browser to close, by the construction of the response (lines 402-415).
Finally(h, locals, results, hrec) ==
  /\ hs' = [hs EXCEPT ![h] = locals]
  /\ hist' = [hist EXCEPT ![h] = hrec]
  /\ IF locals.browser
       THEN /\ pc' = [pc EXCEPT ![h] = "close"]
            /\ response' = response
       ELSE /\ pc' = [pc EXCEPT ![h] = "done"]
            /\ response' = [response EXCEPT ![h] = Some(BuildResponse(locals, results))]

\* a catch-block that records the message and leaves statusCode at 200
CatchKeepsStatus(h, m, results, hrec) ==
  Finally(h,
          [hs[h] EXCEPT !.message = ErrorMessage(m)],
          results,
          [hrec EXCEPT !.caught = @ + 1])

\* catch-block of the handler (lines 385-389), then the finally-block
Catch(h, m, results, hrec) ==
  Finally(h,
          [hs[h] EXCEPT !.statusCode = 500, !.message = ErrorMessage(m)],
          results,
          [hrec EXCEPT !.caught = @ + 1])

\* runStep lines 20-28: read the clock, build the result, start the work unit
EnterRunStep(h, k, tr, results) ==
  /\ frame' = [frame EXCEPT ![h] =
                 [step |-> k, start |-> now,
                  result |-> NewResult(StepNames[k]), localPath |-> None,
                  lenBefore |-> Len(results), tCall |-> now]]
  /\ trace' = [trace EXCEPT ![h] = Append(tr, NewTraceEntry(StepNames[k]))]
  /\ pc' = [pc EXCEPT ![h] = "fn"]

\* handler line 384 and takeScreenshot lines 6-10: name the file, start page.screenshot
EnterTakeScreenshot(h, tr) ==
  /\ frame' = [frame EXCEPT ![h] =
                 [NoFrame EXCEPT !.localPath =
                    Some(LocalPath(FinalFilename("aegean-flight-booking", now)))]]
  /\ trace' = [trace EXCEPT ![h] = tr]
  /\ pc' = [pc EXCEPT ![h] = "takeScreenshot"]

CurrentEntry(h) == trace[h][Len(trace[h])]

\* runStep lines 44-49 and the handler's continuation after `await runStep(...)`:
\* record the duration, push, then either throw into the handler's catch or
\* return and let the handler start its next statement.
FinishStep(h, res0) ==
  LET res     == WithDuration(res0, frame[h].start, now)
      results == Push(stepResults, res)
      k       == frame[h].step
      raised  == ShouldThrow(res)
      msg     == NewErrorMessage(res.errorMessage)
      settled == [CurrentEntry(h) EXCEPT
                    !.settled   = IF raised THEN "raised" ELSE "returned",
                    !.raisedMsg = IF raised THEN Some(msg) ELSE None,
                    !.appended  = Len(results) - frame[h].lenBefore,
                    !.pushed    = IF Len(results) > Len(stepResults)
                                    THEN Some(results[Len(results)]) ELSE None]
      tr      == [trace[h] EXCEPT ![Len(trace[h])] = settled]
  IN /\ stepResults' = results
     /\ IF raised
          THEN /\ Catch(h, msg, results, hist[h])
               /\ trace' = [trace EXCEPT ![h] = tr]
               /\ frame' = [frame EXCEPT ![h] = NoFrame]
          ELSE IF k < NumSteps
          THEN /\ EnterRunStep(h, k + 1, tr, results)
               /\ UNCHANGED <<hs, response, hist>>
          ELSE /\ EnterTakeScreenshot(h, tr)
               /\ UNCHANGED <<hs, response, hist>>

\* --------------------------------------------------- handler: setup

\* lines 127-135: initialise the locals, reset the shared array, start setup
Invoke(h) ==
  /\ pc[h] \in {"idle", "done"}
  /\ hs' = [hs EXCEPT ![h] = InitialLocals]
  /\ stepResults' = ResetResults(stepResults)
  /\ pc' = [pc EXCEPT ![h] = "ensureDirectoriesExist"]
  /\ response' = [response EXCEPT ![h] = None]
  /\ trace' = [trace EXCEPT ![h] = <<>>]
  /\ evidence' = [evidence EXCEPT ![h] = NoEvidence]
  /\ hist' = [hist EXCEPT ![h] = NewHist(Len(stepResults))]
  /\ frame' = [frame EXCEPT ![h] = NoFrame]
  /\ UNCHANGED now

\* line 135 resolved; line 140 starts chromium.executablePath()
EnsureDirectoriesOk(h) ==
  /\ pc[h] = "ensureDirectoriesExist"
  /\ pc' = [pc EXCEPT ![h] = "executablePath"]
  /\ UNCHANGED <<stepResults, now, hs, frame, response, trace, evidence, hist>>

\* line 140 resolved; line 138 starts playwright.launch
ExecutablePathOk(h) ==
  /\ pc[h] = "executablePath"
  /\ pc' = [pc EXCEPT ![h] = "launch"]
  /\ UNCHANGED <<stepResults, now, hs, frame, response, trace, evidence, hist>>

\* line 138: browser = await playwright.launch(...); line 143 starts newContext
LaunchOk(h) ==
  /\ pc[h] = "launch"
  /\ hs' = [hs EXCEPT ![h].browser = TRUE]
  /\ pc' = [pc EXCEPT ![h] = "newContext"]
  /\ hist' = [hist EXCEPT ![h].launched = TRUE]
  /\ UNCHANGED <<stepResults, now, frame, response, trace, evidence>>

\* line 143 resolved; line 148 starts newPage
NewContextOk(h) ==
  /\ pc[h] = "newContext"
  /\ pc' = [pc EXCEPT ![h] = "newPage"]
  /\ UNCHANGED <<stepResults, now, hs, frame, response, trace, evidence, hist>>

\* line 148 resolved; lines 151-154 call runStep for the first step
NewPageOk(h) ==
  /\ pc[h] = "newPage"
  /\ EnterRunStep(h, 1, trace[h], stepResults)
  /\ hist' = [hist EXCEPT ![h].setup = "ok"]
  /\ UNCHANGED <<stepResults, now, hs, response, evidence>>

\* any awaited setup action rejects: lines 385-399
SetupRaises(h, m) ==
  /\ pc[h] \in SetupStages
  /\ Catch(h, m, stepResults,
           [hist[h] EXCEPT !.setup = "failed", !.fatal = Some(m)])
  /\ UNCHANGED <<stepResults, now, frame, trace, evidence>>

\* ------------------------------------------------- runStep: one step

\* runStep line 36 and takeStepScreenshot lines 4-9: the evidence phase starts
\* with the result res; the file is named from the step name and the clock
EnterTakeStepScreenshot(h, res, entry) ==
  /\ frame' = [frame EXCEPT ![h].result = res,
                            ![h].localPath =
                               Some(LocalPath(StepFilename(res.name, now)))]
  /\ trace' = [trace EXCEPT ![h][Len(trace[h])] = entry]
  /\ evidence' = [evidence EXCEPT ![h] =
                    [NoEvidence EXCEPT !.call = frame[h].step,
                                       !.capture = "pending",
                                       !.captures = 1,
                                       !.tStart = frame[h].tCall,
                                       !.tWork = now]]
  /\ pc' = [pc EXCEPT ![h] = "takeStepScreenshot"]
  /\ UNCHANGED <<stepResults, now, hs, response, hist>>

\* runStep line 28: the work unit resolved
FnOk(h) ==
  /\ pc[h] = "fn"
  /\ EnterTakeStepScreenshot(h, frame[h].result,
                             [CurrentEntry(h) EXCEPT !.work = "ok"])

\* a runStep that records the work error and finishes without the evidence phase
FnRaisesSkipsEvidence(h, m) ==
  /\ pc[h] = "fn"
  /\ FinishStep(h, OnWorkError(frame[h].result, m))
  /\ UNCHANGED <<now, evidence>>

\* runStep lines 28-33: the work unit rejected with an Error of message m
FnRaises(h, m) ==
  /\ pc[h] = "fn"
  /\ EnterTakeStepScreenshot(h, OnWorkError(frame[h].result, m),
                             [CurrentEntry(h) EXCEPT !.work = "raised",
                                                     !.workMsg = Some(m)])

\* a runStep that starts the upload without awaiting it and goes on
TakeStepScreenshotOkNoAwait(h) ==
  /\ pc[h] = "takeStepScreenshot"
  /\ evidence' = [evidence EXCEPT ![h].capture = "ok", ![h].upload = "pending",
                                  ![h].uploads = @ + 1]
  /\ FinishStep(h, frame[h].result)
  /\ UNCHANGED now

\* takeStepScreenshot returned localPath (mkdir and page.screenshot resolved);
\* runStep lines 37-38 call uploadToS3
TakeStepScreenshotOk(h) ==
  /\ pc[h] = "takeStepScreenshot"
  /\ pc' = [pc EXCEPT ![h] = "uploadToS3"]
  /\ evidence' = [evidence EXCEPT ![h].capture = "ok", ![h].upload = "pending",
                                  ![h].uploads = @ + 1]
  /\ UNCHANGED <<stepResults, now, hs, frame, response, trace, hist>>

\* a runStep without the try/catch of lines 35-42: the capture error leaves
\* runStep before the push and reaches the catch-block of the handler
TakeStepScreenshotRaisesPropagates(h) ==
  /\ pc[h] = "takeStepScreenshot"
  /\ evidence' = [evidence EXCEPT ![h].capture = "raised", ![h].tEnd = now]
  /\ Catch(h, <<"screenshot", "failed">>, stepResults, hist[h])
  /\ trace' = [trace EXCEPT ![h][Len(trace[h])].settled = "raised"]
  /\ frame' = [frame EXCEPT ![h] = NoFrame]
  /\ UNCHANGED <<stepResults, now>>

\* fs.mkdir or page.screenshot rejected: runStep lines 39-49
TakeStepScreenshotRaises(h) ==
  /\ pc[h] = "takeStepScreenshot"
  /\ evidence' = [evidence EXCEPT ![h].capture = "raised", ![h].tEnd = now]
  /\ FinishStep(h, OnEvidenceError(frame[h].result))
  /\ UNCHANGED now

\* uploadToS3 returned the URL (readFile and s3.send resolved): runStep lines 38, 44-49
UploadToS3Ok(h) ==
  /\ pc[h] = "uploadToS3"
  /\ LET url == S3Url(PopSegment(Get(frame[h].localPath)))
     IN /\ evidence' = [evidence EXCEPT ![h].upload = "ok",
                                        ![h].uploaded = Some(url),
                                        ![h].tEnd = now]
        /\ FinishStep(h, OnUploaded(frame[h].result, url))
  /\ UNCHANGED now

\* a runStep that calls uploadToS3 a second time when the first call raised
UploadToS3RaisesRetries(h) ==
  /\ pc[h] = "uploadToS3"
  /\ IF evidence[h].uploads < 2
       THEN /\ evidence' = [evidence EXCEPT ![h].uploads = @ + 1]
            /\ UNCHANGED <<stepResults, pc, hs, frame, response, trace, hist>>
       ELSE /\ evidence' = [evidence EXCEPT ![h].upload = "raised",
                                            ![h].tEnd = now]
            /\ FinishStep(h, OnEvidenceError(frame[h].result))
  /\ UNCHANGED now

\* readFile or s3.send rejected: runStep lines 39-49
UploadToS3Raises(h) ==
  /\ pc[h] = "uploadToS3"
  /\ evidence' = [evidence EXCEPT ![h].upload = "raised", ![h].tEnd = now]
  /\ FinishStep(h, OnEvidenceError(frame[h].result))
  /\ UNCHANGED now

\* ------------------------------------- handler: final screenshot, close

\* handler line 384: screenshotUrl = await takeScreenshot(...); then finally
TakeScreenshotOk(h) ==
  /\ pc[h] = "takeScreenshot"
  /\ Finally(h,
             [hs[h] EXCEPT !.screenshotUrl =
                Some(S3Url(PopSegment(Get(frame[h].localPath))))],
             stepResults,
             [hist[h] EXCEPT !.final = "ok"])
  /\ frame' = [frame EXCEPT ![h] = NoFrame]
  /\ UNCHANGED <<stepResults, now, trace, evidence>>

\* page.screenshot, readFile or s3.send of the final screenshot rejected
TakeScreenshotRaises(h, m) ==
  /\ pc[h] = "takeScreenshot"
  /\ Catch(h, m, stepResults,
           [hist[h] EXCEPT !.final = "failed", !.fatal = Some(m)])
  /\ frame' = [frame EXCEPT ![h] = NoFrame]
  /\ UNCHANGED <<stepResults, now, trace, evidence>>

\* lines 392-415: browser.close() settled, the response is built and returned
Respond(h, failed) ==
  /\ pc[h] = "close"
  /\ pc' = [pc EXCEPT ![h] = "done"]
  /\ response' = [response EXCEPT ![h] = Some(BuildResponse(hs[h], stepResults))]
  /\ hist' = [hist EXCEPT ![h].closes = @ + 1, ![h].closeFailed = failed]
  /\ UNCHANGED <<stepResults, now, hs, frame, trace, evidence>>

\* line 394 resolved
CloseOk(h) == Respond(h, FALSE)

\* lines 395-397: the error of browser.close() is logged and dropped
CloseRaises(h) == Respond(h, TRUE)

\* ----------------------------------------------------- specifications

\* every synchronous segment of handler invocation h
HandlerStep(h) ==
  \/ Invoke(h)
  \/ EnsureDirectoriesOk(h)
  \/ ExecutablePathOk(h)
  \/ LaunchOk(h)
  \/ NewContextOk(h)
  \/ NewPageOk(h)
  \/ \E m \in SetupMessages : SetupRaises(h, m)
  \/ FnOk(h)
  \/ \E m \in WorkMessages : FnRaises(h, m)
  \/ TakeStepScreenshotOk(h)
  \/ TakeStepScreenshotRaises(h)
  \/ UploadToS3Ok(h)
  \/ UploadToS3Raises(h)
  \/ TakeScreenshotOk(h)
  \/ \E m \in FinalMessages : TakeScreenshotRaises(h, m)
  \/ CloseOk(h)
  \/ CloseRaises(h)

\* One handler invocation at a time (the Lambda execution model): a new
\* invocation starts only after the previous one has returned.
Next == Tick \/ HandlerStep("h1")

Spec == Init /\ [][Next]_vars

\* Two invocations in the same process whose awaits interleave.  Every awaited
\* action succeeds here; the failure paths are covered by Spec and add nothing
\* to the interleavings.
\* Each of the two invocations starts once; they are interchangeable, and h1
\* is the one that starts first.
InvokeOverlapping(h) ==
  /\ pc[h] = "idle"
  /\ h = "h2" => pc["h1"] # "idle"
  /\ Invoke(h)

ConcStep(h) ==
  \/ InvokeOverlapping(h)
  \/ EnsureDirectoriesOk(h)
  \/ ExecutablePathOk(h)
  \/ LaunchOk(h)
  \/ NewContextOk(h)
  \/ NewPageOk(h)
  \/ FnOk(h)
  \/ TakeStepScreenshotOk(h)
  \/ UploadToS3Ok(h)
  \/ TakeScreenshotOk(h)
  \/ CloseOk(h)

NextConc == \E h \in Handlers : ConcStep(h)

SpecConc == Init /\ [][NextConc]_vars

\* ------------------------------------------------------- properties

\* the runStep calls of a run that have returned or raised
SettledCalls(t) == {i \in 1..Len(t) : t[i].settled # "no"}

\* C1: every runStep call appends exactly one StepResult by the time it
\* returns or raises, whatever the work unit and the evidence phase did: the
\* length of stepResults after the call is the length before it plus one, and
\* nothing is appended while the call is still in progress.
C1_ExactlyOneAppend ==
  \A i \in 1..Len(trace["h1"]) :
    LET e == trace["h1"][i]
    IN /\ e.settled # "no" => e.appended = 1
       /\ e.settled = "no" => Len(stepResults) = frame["h1"].lenBefore

\* a call whose work unit raised and whose upload raised has settled
C1_Witness ==
  /\ Len(trace["h1"]) = 2
  /\ trace["h1"][2].work = "raised"
  /\ trace["h1"][2].settled # "no"
  /\ evidence["h1"].call = 2
  /\ evidence["h1"].upload = "raised"
  /\ Len(stepResults) = 2

\* C2: a recorded StepResult has status "error" exactly when the work unit of
\* its call raised; a failed capture or upload does not change the status.
C2_StatusIffWorkRaised ==
  \A i \in 1..Len(stepResults) :
    /\ i <= Len(trace["h1"])
    /\ stepResults[i].status \in {"success", "error"}
    /\ stepResults[i].status = "error" <=> trace["h1"][i].work = "raised"

\* the work unit succeeded, the capture raised, the recorded status is success
C2_Witness ==
  /\ evidence["h1"].call = 1
  /\ evidence["h1"].capture = "raised"
  /\ Len(stepResults) = 1
  /\ trace["h1"][1].work = "ok"
  /\ stepResults[1].status = "success"

\* C3: runStep raises to its caller exactly when the work unit raised, with
\* the work unit's message; it returns normally when only the evidence failed.
C3_RaisesIffWorkRaised ==
  \A i \in SettledCalls(trace["h1"]) :
    LET e == trace["h1"][i]
    IN /\ e.settled = "raised" <=> e.work = "raised"
       /\ e.settled = "raised" => e.raisedMsg = e.workMsg
       /\ e.settled = "returned" => e.raisedMsg = None

\* the work unit succeeded, the upload raised, runStep returned normally
C3_Witness ==
  /\ evidence["h1"].call = 1
  /\ evidence["h1"].upload = "raised"
  /\ trace["h1"][1].work = "ok"
  /\ trace["h1"][1].settled = "returned"

\* C4: the results are recorded in the order of the step list and the run
\* stops at the first step whose work raises: that step is the last call of
\* the run and the last result, with status error after successes only.
C4_StopsAtFirstFailure ==
  LET t == trace["h1"]
  IN /\ \A i \in 1..Len(stepResults) :
          /\ stepResults[i].name = StepNames[i]
          /\ i < Len(stepResults) => stepResults[i].status = "success"
     /\ \A k \in 1..Len(t) :
          t[k].work = "raised" =>
             /\ k = Len(t)
             /\ Len(stepResults) <= k
             /\ t[k].settled # "no" =>
                  /\ Len(stepResults) = k
                  /\ stepResults[k].status = "error"
                  /\ pc["h1"] \in {"close", "done"}
     /\ pc["h1"] = "done" /\ Len(t) > 0 =>
          /\ Get(response["h1"]).steps = stepResults
          /\ Len(stepResults) = Len(t)

\* the run [A, B, C, ...] in which B failed has ended with [A(success), B(error)]
C4_Witness ==
  /\ pc["h1"] = "done"
  /\ Len(trace["h1"]) = 2
  /\ trace["h1"][2].work = "raised"
  /\ Len(Get(response["h1"]).steps) = 2
  /\ Get(response["h1"]).steps[1].status = "success"
  /\ Get(response["h1"]).steps[2].status = "error"

\* C5: a recorded StepResult has an errorMessage exactly when the work unit
\* raised, and it is the message of the raised error, also when the evidence
\* phase of the same call failed.
C5_ErrorMessageIsWorkMessage ==
  \A i \in 1..Len(stepResults) :
    /\ i <= Len(trace["h1"])
    /\ stepResults[i].errorMessage # None <=> trace["h1"][i].work = "raised"
    /\ stepResults[i].errorMessage = trace["h1"][i].workMsg

\* the work unit raised "not found" and the capture raised in the same call
C5_Witness ==
  /\ Len(stepResults) = 1
  /\ trace["h1"][1].workMsg = Some(<<"not", "found">>)
  /\ evidence["h1"].call = 1
  /\ evidence["h1"].capture = "raised"
  /\ stepResults[1].errorMessage = Some(<<"not", "found">>)

\* C6: when a StepResult is recorded, its screenshotUrl is set exactly when
\* both the capture and the upload of that call succeeded, and it is then the
\* URL the uploader returned, whether or not the work unit succeeded.
C6_ScreenshotUrlIffEvidence ==
  LET ev == evidence["h1"]
  IN ev.call > 0 /\ ev.call <= Len(stepResults) =>
       LET r == stepResults[ev.call]
       IN /\ r.screenshotUrl # None <=> (ev.capture = "ok" /\ ev.upload = "ok")
          /\ r.screenshotUrl = ev.uploaded
          /\ ev.capture = "raised" => ev.upload = "none"

\* the work unit raised, capture and upload succeeded, the URL is recorded
C6_Witness ==
  /\ evidence["h1"].call = 1
  /\ evidence["h1"].upload = "ok"
  /\ Len(stepResults) = 1
  /\ stepResults[1].status = "error"
  /\ stepResults[1].screenshotUrl # None

\* the StepResults the calls of a run have recorded, in the order of the calls
OwnResults(t) ==
  [i \in 1..Cardinality(SettledCalls(t)) |-> Get(t[i].pushed)]

\* C7: when two handler invocations overlap in one process, the steps in each
\* invocation's response are exactly the StepResults its own runStep calls
\* recorded, in its own order.
C7_ResponseHoldsOwnSteps ==
  \A h \in Handlers :
    pc[h] = "done" => Get(response[h]).steps = OwnResults(trace[h])

\* C8: a run that starts while stepResults holds the results of an earlier
\* run works on, and reports, only the results of its own steps; the array is
\* already empty when the first runStep call of the run starts.
C8_ResetAtRunStart ==
  hist["h1"].leftover =>
    /\ stepResults = OwnResults(trace["h1"])
    /\ Len(trace["h1"]) = 1 /\ trace["h1"][1].settled = "no" =>
         frame["h1"].lenBefore = 0
    /\ pc["h1"] = "done" =>
         Get(response["h1"]).steps = OwnResults(trace["h1"])

\* a run that started with leftovers has reported a step of its own
C8_Witness ==
  /\ hist["h1"].leftover
  /\ pc["h1"] = "done"
  /\ Len(trace["h1"]) >= 1
  /\ Len(Get(response["h1"]).steps) = Len(trace["h1"])

\* the work unit of every step of the run succeeded
AllWorkOk(t) ==
  /\ Len(t) = NumSteps
  /\ \A i \in 1..Len(t) : t[i].work = "ok"

\* the report of a successful run: one successful StepResult per step, HTTP 200
SuccessReport(r) ==
  /\ Len(r.steps) = NumSteps
  /\ \A i \in 1..Len(r.steps) :
        r.steps[i].status = "success" /\ r.steps[i].name = StepNames[i]
  /\ r.statusCode = 200
  /\ r.message = <<"Success">>

\* C9 as stated: setup and every work unit succeeded, so the run reports success.
C9_SuccessWhenAllWorkOk ==
  pc["h1"] = "done" /\ hist["h1"].setup = "ok" /\ AllWorkOk(trace["h1"]) =>
    SuccessReport(Get(response["h1"]))

\* C9 amended: setup, every work unit and the final takeScreenshot succeeded,
\* so the report holds one successful StepResult per step and the run status
\* is success (HTTP 200, message "Success").
C9_SuccessWhenAllWorkAndFinalOk ==
  /\ pc["h1"] = "done"
  /\ hist["h1"].setup = "ok"
  /\ AllWorkOk(trace["h1"])
  /\ hist["h1"].final = "ok"
  => SuccessReport(Get(response["h1"]))

\* a fully successful run, one of whose steps has no screenshot, has reported
C9_Witness ==
  /\ pc["h1"] = "done"
  /\ AllWorkOk(trace["h1"])
  /\ hist["h1"].final = "ok"
  /\ Get(response["h1"]).statusCode = 200
  /\ Get(response["h1"]).steps[NumSteps].screenshotUrl = None

\* C10: when the work unit of step k raises an error with message m, the
\* report holds exactly k StepResults, the last with status error and
\* errorMessage m, the status is 500 and the message contains m; runStep
\* raised once and the handler caught once.
C10_FailureReport ==
  LET t == trace["h1"]
  IN pc["h1"] = "done" /\ Len(t) > 0 /\ t[Len(t)].work = "raised" =>
       LET k == Len(t)
           m == Get(t[k].workMsg)
           r == Get(response["h1"])
       IN /\ Len(r.steps) = k
          /\ r.steps[k].status = "error"
          /\ r.steps[k].errorMessage = Some(m)
          /\ \A i \in 1..(k - 1) : r.steps[i].status = "success"
          /\ r.statusCode = 500
          /\ Contains(r.message, m)
          /\ r.screenshotUrl = None
          /\ Cardinality({i \in 1..k : t[i].settled = "raised"}) = 1
          /\ t[k].raisedMsg = Some(m)
          /\ hist["h1"].caught = 1

\* the second step raised "not found" and the run has reported the failure
C10_Witness ==
  /\ pc["h1"] = "done"
  /\ Len(trace["h1"]) = 2
  /\ trace["h1"][2].workMsg = Some(<<"not", "found">>)
  /\ Get(response["h1"]).statusCode = 500
  /\ Contains(Get(response["h1"]).message, <<"not", "found">>)

\* C11: the handler answers every run with a structured response and never
\* hands an error to its caller: a finished run has a response whose statusCode
\* is 200 or 500 and whose message is "Success" or starts with "Error:", and no
\* response exists before the run finished.  When setup (directories,
\* executable path, launch, context, page) failed, the response has statusCode
\* 500, the message "Error: " followed by the message of that setup error, a
\* null screenshotUrl and no steps, whether or not closing the browser failed.
C11_AlwaysStructuredResponse ==
  LET h == "h1"
  IN /\ (response[h] # None) <=> (pc[h] = "done")
     /\ pc[h] = "done" =>
          LET r == Get(response[h])
          IN /\ r.statusCode \in {200, 500}
             /\ r.statusCode = 200 => r.message = <<"Success">>
             /\ r.statusCode = 500 => /\ Len(r.message) > 1
                                      /\ r.message[1] = "Error:"
             /\ hist[h].setup = "failed" =>
                  /\ r.statusCode = 500
                  /\ hist[h].fatal # None
                  /\ r.message = <<"Error:">> \o Get(hist[h].fatal)
                  /\ r.screenshotUrl = None
                  /\ r.steps = <<>>
                  /\ trace[h] = <<>>

\* a run whose setup failed after the launch, in a process that still held the
\* results of an earlier run, and whose browser.close() failed as well
C11_Witness ==
  /\ pc["h1"] = "done"
  /\ hist["h1"].setup = "failed"
  /\ hist["h1"].launched
  /\ hist["h1"].closeFailed
  /\ hist["h1"].leftover
  /\ Get(response["h1"]).statusCode = 500

\* C12: the steps of one run execute one after the other.  Every runStep call
\* but the latest has returned and has appended its StepResult; at most one
\* call is in progress; and while the work unit of step N+1 runs, the capture
\* and the upload of step N are over (none of them is pending) and stepResults
\* holds exactly the N results of the earlier steps.
C12_StrictlySequential ==
  LET h == "h1"
      t == trace[h]
      n == Len(t)
  IN /\ \A i \in 1..(n - 1) : t[i].settled = "returned" /\ t[i].appended = 1
     /\ Cardinality({i \in 1..n : t[i].settled = "no"}) <= 1
     /\ (\E i \in 1..n : t[i].settled = "no") <=>
          pc[h] \in {"fn", "takeStepScreenshot", "uploadToS3"}
     /\ pc[h] \in {"fn", "takeStepScreenshot", "uploadToS3"} =>
          /\ frame[h].step = n
          /\ t[n].name = StepNames[n]
          /\ Len(stepResults) = n - 1
     /\ (pc[h] = "fn" /\ n > 1) =>
          /\ evidence[h].call = n - 1
          /\ evidence[h].capture \in {"ok", "raised"}
          /\ evidence[h].upload \in {"none", "ok", "raised"}
          /\ evidence[h].capture = "ok" => evidence[h].upload \in {"ok", "raised"}

\* the work unit of the third step is running after a second step whose
\* screenshot was captured and uploaded
C12_Witness ==
  /\ pc["h1"] = "fn"
  /\ Len(trace["h1"]) = 3
  /\ evidence["h1"].call = 2
  /\ evidence["h1"].upload = "ok"
  /\ Len(stepResults) = 2

\* C13: every recorded durationMs is a non-negative number, and the durationMs
\* of the latest finished runStep call is the clock read when its capture and
\* upload attempts were over minus the clock read before its work unit started:
\* it is the time of the work unit plus the time of the evidence phase.
C13_DurationCoversEvidence ==
  LET h == "h1"
      e == evidence[h]
      c == e.call
  IN /\ \A i \in 1..Len(stepResults) : stepResults[i].durationMs \in 0..MaxTime
     /\ (c >= 1 /\ c <= Len(trace[h]) /\ trace[h][c].settled # "no") =>
          /\ c <= Len(stepResults)
          /\ e.tStart <= e.tWork /\ e.tWork <= e.tEnd
          /\ stepResults[c].durationMs = e.tEnd - e.tStart
          /\ stepResults[c].durationMs >= (e.tWork - e.tStart) + (e.tEnd - e.tWork)

\* the work unit of the second step took no time, its capture and upload took
\* one unit of time, and the recorded duration is that unit
C13_Witness ==
  /\ evidence["h1"].call = 2
  /\ Len(stepResults) = 2
  /\ trace["h1"][2].settled = "returned"
  /\ evidence["h1"].upload = "ok"
  /\ evidence["h1"].tWork = evidence["h1"].tStart
  /\ evidence["h1"].tEnd = evidence["h1"].tWork + 1
  /\ stepResults[2].durationMs = 1

\* the latest runStep call that has returned or raised (0 when there is none)
LastSettled(t) ==
  IF SettledCalls(t) = {} THEN 0
  ELSE CHOOSE i \in SettledCalls(t) : \A j \in SettledCalls(t) : j <= i

\* C14: the phases of one runStep call come in a fixed order.  While the work
\* unit runs, neither capture nor upload of this call has been attempted and
\* nothing is appended; the capture is attempted once the work unit has
\* resolved or raised, and in every call; the upload is attempted exactly when
\* the capture succeeded; the StepResult is appended when the evidence phase
\* is over; and a call that raised has appended its StepResult, which the
\* response then holds.
C14_PhaseOrder ==
  LET h == "h1"
      t == trace[h]
      n == Len(t)
      e == evidence[h]
      c == LastSettled(t)
  IN /\ pc[h] = "fn" =>
          /\ t[n].work = "pending"
          /\ e.call # n
          /\ Len(stepResults) = frame[h].lenBefore
     /\ pc[h] = "takeStepScreenshot" =>
          /\ t[n].work \in {"ok", "raised"}
          /\ e.call = n /\ e.capture = "pending" /\ e.upload = "none"
          /\ Len(stepResults) = frame[h].lenBefore
     /\ pc[h] = "uploadToS3" =>
          /\ t[n].work \in {"ok", "raised"}
          /\ e.call = n /\ e.capture = "ok" /\ e.upload = "pending"
          /\ Len(stepResults) = frame[h].lenBefore
     /\ (c >= 1 /\ (c = n \/ pc[h] = "fn")) =>
          /\ t[c].work \in {"ok", "raised"}
          /\ e.call = c
          /\ e.capture \in {"ok", "raised"}
          /\ e.capture = "ok" <=> e.upload \in {"ok", "raised"}
          /\ e.capture = "raised" <=> e.upload = "none"
          /\ t[c].appended = 1
          /\ t[c].pushed # None
          /\ t[c].settled = "raised" =>
               /\ c <= Len(stepResults)
               /\ stepResults[c] = Get(t[c].pushed)
               /\ stepResults[c].status = "error"
               /\ pc[h] = "done" => Get(response[h]).steps[c].status = "error"

\* the work unit of the second step raised, its screenshot was captured and
\* its upload is running: nothing is appended yet
C14_Witness ==
  /\ pc["h1"] = "uploadToS3"
  /\ Len(trace["h1"]) = 2
  /\ trace["h1"][2].work = "raised"
  /\ evidence["h1"].call = 2
  /\ evidence["h1"].capture = "ok"
  /\ Len(stepResults) = 1

\* the runStep calls whose StepResult carries no screenshotUrl
WithoutEvidence(results) ==
  {i \in 1..Len(results) : results[i].screenshotUrl = None}

\* C15: a failure of the capture or of the upload never stops the run.  A call
\* whose work unit succeeded and whose capture or upload raised returns
\* normally with a "success" StepResult, and the run goes on: the work unit of
\* the next step is started, or after the last step the final screenshot.
\* When no work unit raised, a run that reached the final screenshot has
\* executed all steps and recorded one StepResult for each of them, however
\* many of them lack a screenshotUrl.
C15_EvidenceFailureDoesNotStop ==
  LET h == "h1"
      t == trace[h]
      n == Len(t)
      e == evidence[h]
      c == e.call
  IN /\ (/\ c >= 1 /\ c <= n
         /\ t[c].settled # "no"
         /\ t[c].work = "ok"
         /\ (e.capture = "raised" \/ e.upload = "raised")) =>
          /\ t[c].settled = "returned"
          /\ stepResults[c].status = "success"
          /\ stepResults[c].screenshotUrl = None
          /\ hist[h].caught = 0 \/ hist[h].final = "failed"
          /\ IF c < NumSteps
               THEN n = c + 1 /\ pc[h] = "fn" /\ t[n].name = StepNames[c + 1]
               ELSE pc[h] \in {"takeScreenshot", "close", "done"}
     /\ (/\ pc[h] \in {"takeScreenshot", "close", "done"}
         /\ hist[h].setup = "ok"
         /\ \A i \in 1..n : t[i].work # "raised") =>
          /\ n = NumSteps
          /\ Len(stepResults) = NumSteps
          /\ \A i \in 1..NumSteps : stepResults[i].status = "success"

\* a run in which the evidence of every step failed and that answered 200 with
\* all steps
C15_Witness ==
  /\ pc["h1"] = "done"
  /\ Cardinality(WithoutEvidence(stepResults)) = NumSteps
  /\ evidence["h1"].call = NumSteps
  /\ evidence["h1"].upload = "raised"
  /\ Get(response["h1"]).statusCode = 200
  /\ Len(Get(response["h1"]).steps) = NumSteps

\* C16: during a run stepResults changes only by the append of one StepResult
\* at its end, made by a runStep call that finishes its evidence phase: the
\* elements recorded before stay in place, unchanged.  The only other change
\* is the reset that starts a run.
C16_AppendOnly ==
  [][LET h == "h1"
         n == Len(stepResults)
     IN \/ stepResults' = stepResults
        \/ /\ pc[h] \in {"idle", "done"}
           /\ pc'[h] = "ensureDirectoriesExist"
           /\ stepResults' = <<>>
        \/ /\ pc[h] \in {"takeStepScreenshot", "uploadToS3"}
           /\ Len(stepResults') = n + 1
           /\ SubSeq(stepResults', 1, n) = stepResults
           /\ stepResults'[n + 1].name = StepNames[frame[h].step]]_vars

\* three steps have been recorded one after the other and the fourth is running
C16_Witness ==
  /\ pc["h1"] = "fn"
  /\ Len(stepResults) = 3
  /\ Len(trace["h1"]) = 4
  /\ \A i \in 1..3 : stepResults[i] = Get(trace["h1"][i].pushed)

\* C17: in a run that is not overlapped by another, stepResults holds at most
\* one StepResult of status "error", which is then its last element; no two
\* of its elements have the same name; and its names are the first names of
\* the step list of the handler, in that order.
C17_OneErrorLastDistinctPrefix ==
  LET n == Len(stepResults)
      errors == {i \in 1..n : stepResults[i].status = "error"}
  IN /\ Cardinality(errors) <= 1
     /\ \A i \in errors : i = n
     /\ \A i, j \in 1..n : i # j => stepResults[i].name # stepResults[j].name
     /\ n <= NumSteps
     /\ \A i \in 1..n : stepResults[i].name = StepNames[i]
     /\ \A i, j \in 1..NumSteps : i # j => StepNames[i] # StepNames[j]

\* four steps are recorded and the fourth is the only failed one
C17_Witness ==
  /\ Len(stepResults) = 4
  /\ stepResults[4].status = "error"
  /\ \A i \in 1..3 : stepResults[i].status = "success"
  /\ pc["h1"] \in {"close", "done"}

\* the message of the error that ended the run: of setup or of the final
\* screenshot, else of the work unit that raised
FatalMessage(h) ==
  IF hist[h].fatal # None THEN hist[h].fatal
  ELSE IF trace[h] # <<>> THEN CurrentEntry(h).workMsg
  ELSE None

\* C18: a response has statusCode 200 exactly when its screenshotUrl is not
\* null.  The screenshotUrl of the handler is set only by the final
\* takeScreenshot, after all steps returned normally, and is the URL of the
\* uploaded "aegean-flight-booking" picture.  A run in which setup, the work of
\* a step or the final screenshot failed answers statusCode 500, a null
\* screenshotUrl and the message "Error: " followed by the message of that
\* error.
C18_StatusIffScreenshotUrl ==
  LET h == "h1"
      failed == \/ hist[h].setup = "failed"
                \/ hist[h].final = "failed"
                \/ \E i \in 1..Len(trace[h]) : trace[h][i].work = "raised"
  IN /\ hs[h].screenshotUrl # None =>
          /\ hist[h].final = "ok"
          /\ pc[h] \in {"close", "done"}
          /\ AllWorkOk(trace[h])
          /\ \A i \in 1..NumSteps : trace[h][i].settled = "returned"
          /\ \E t \in 0..MaxTime :
               hs[h].screenshotUrl =
                 Some(S3Url(FinalFilename("aegean-flight-booking", t)))
     /\ pc[h] = "done" =>
          LET r == Get(response[h])
          IN /\ r.statusCode = 200 <=> r.screenshotUrl # None
             /\ r.screenshotUrl = hs[h].screenshotUrl
             /\ r.statusCode = 200 <=> ~failed
             /\ failed =>
                  /\ r.statusCode = 500
                  /\ r.screenshotUrl = None
                  /\ FatalMessage(h) # None
                  /\ r.message = <<"Error:">> \o Get(FatalMessage(h))

\* a run whose fourth step failed after its own screenshot was uploaded: the
\* response is 500 and its top-level screenshotUrl is null
C18_Witness ==
  /\ pc["h1"] = "done"
  /\ Len(stepResults) = 4
  /\ stepResults[4].status = "error"
  /\ stepResults[4].screenshotUrl # None
  /\ Get(response["h1"]).statusCode = 500
  /\ Get(response["h1"]).screenshotUrl = None

\* C19: browser.close() is attempted exactly once in every run whose launch
\* succeeded, whether the run succeeded or failed, and never in a run whose
\* launch did not succeed.  While it is attempted no step is in progress and
\* no response exists; the response follows it.  Its failure changes nothing:
\* with or without it the response has statusCode 200 and "Success" exactly
\* when the final screenshot succeeded, the statusCode and message the handler
\* held when close was called, and the StepResults of the run as its steps.
C19_CloseOnceAfterLaunch ==
  LET h == "h1"
      t == trace[h]
  IN /\ hist[h].closes <= 1
     /\ hist[h].launched <=> hs[h].browser
     /\ ~hist[h].launched => hist[h].closes = 0 /\ pc[h] # "close"
     /\ hist[h].closeFailed => hist[h].closes = 1
     /\ pc[h] = "close" =>
          /\ hist[h].launched
          /\ hist[h].closes = 0
          /\ response[h] = None
          /\ frame[h] = NoFrame
          /\ \A i \in 1..Len(t) : t[i].settled # "no"
          /\ Len(stepResults) = Len(t)
     /\ pc[h] = "done" =>
          LET r == Get(response[h])
          IN /\ hist[h].closes = IF hist[h].launched THEN 1 ELSE 0
             /\ r.statusCode = hs[h].statusCode
             /\ r.message = hs[h].message
             /\ r.statusCode = IF hist[h].final = "ok" THEN 200 ELSE 500
             /\ r.message = <<"Success">> <=> hist[h].final = "ok"
             /\ r.steps = OwnResults(t)

\* a run that succeeded although closing its browser failed
C19_Witness ==
  /\ pc["h1"] = "done"
  /\ hist["h1"].launched
  /\ hist["h1"].closes = 1
  /\ hist["h1"].closeFailed
  /\ Get(response["h1"]).statusCode = 200
  /\ Len(Get(response["h1"]).steps) = NumSteps

\* ------------------------------------------------------------- progress

\* An awaited external action of invocation h settles: it resolves or rejects,
\* and the handler runs on to its next await or to its return.
Settle(h) == pc[h] \notin {"idle", "done"} /\ HandlerStep(h)

\* One invocation at a time, as in Spec, with the clock standing still: no
\* condition of handler or runStep reads the clock, so the time values have no
\* part in whether a run ends.
NextLive == HandlerStep("h1")

\* The assumption that every awaited external action (setup, work unit,
\* capture, upload, final screenshot, close) eventually settles.
SpecLive == Init /\ [][NextLive]_vars /\ WF_vars(Settle("h1"))

\* C20: when every awaited external action eventually resolves or rejects,
\* every runStep call eventually returns or raises (its work unit settles and
\* its evidence phase then ends) and every handler invocation eventually
\* returns a response.  runStep retries nothing: a run
\* invokes the work unit of a step at most once, and a runStep call attempts
\* the capture at most once and the upload at most once.
C20_Terminates ==
  LET h == "h1"
  IN /\ [](/\ Len(trace[h]) <= NumSteps
           /\ \A i, j \in 1..Len(trace[h]) :
                i # j => trace[h][i].name # trace[h][j].name
           /\ evidence[h].captures <= 1
           /\ evidence[h].uploads <= 1
           /\ hist[h].closes <= 1)
     /\ (pc[h] = "fn") ~> (pc[h] = "takeStepScreenshot")
     /\ (pc[h] \in {"takeStepScreenshot", "uploadToS3"})
          ~> (pc[h] \notin {"takeStepScreenshot", "uploadToS3"})
     /\ (pc[h] \notin {"idle", "done"})
          ~> (pc[h] = "done" /\ response[h] # None)

\* a run has gone through all six steps, each with one capture and one upload
\* attempt, and has returned its response
C20_Witness ==
  /\ pc["h1"] = "done"
  /\ response["h1"] # None
  /\ Len(trace["h1"]) = NumSteps
  /\ evidence["h1"].call = NumSteps
  /\ evidence["h1"].captures = 1
  /\ evidence["h1"].uploads = 1
  /\ hist["h1"].closes = 1

====
